---- MODULE Spec2Model ----
(***************************************************************************)
(* Model of tools/benchmark_rectangles/main.py: the linear-congruential    *)
(* generator SimpleRNG, the bouncing-rectangle Simulation and the timing   *)
(* loop of run_benchmark.                                                  *)
(*                                                                         *)
(* Numbers.  A 32-bit RNG value n is the pair <<hi, lo>> of its 16-bit     *)
(* limbs, n = hi * 2^16 + lo.  A float of the simulation is the pair       *)
(* <<m, l>> standing for m * 2^-16 + l * 2^-33 with 0 <= l < 2^17.  Every  *)
(* float the simulation computes from integer bounds below 2^15 is a       *)
(* multiple of 2^-33 of magnitude below 2^16: it has at most 49            *)
(* significant bits, so the float64 operations of the source are exact on  *)
(* it, and so is this representation.                                      *)
(***************************************************************************)
EXTENDS Integers, Sequences, FiniteSets, TLC

VARIABLES
    width,        \* Simulation.width
    height,       \* Simulation.height
    rectangles,   \* Simulation.rectangles, in creation order
    rng,          \* the SimpleRNG local to Simulation.__init__, as it was left
    args,         \* the arguments the Simulation was constructed with
    steps,        \* number of update() calls made so far
    prev,         \* rectangles before the latest update()
    prev2,        \* rectangles before the update() preceding the latest
    hit,          \* wall corrections applied by the latest update(), per rectangle
    prevHit,      \* wall corrections applied by the update() preceding the latest
    boxes,        \* latest result of get_bounding_boxes(), or NoResult
    ids,          \* latest result of get_ground_truth_ids(), or NoResult
    lastOp,       \* the method of Simulation that ran last
    gens,         \* SimpleRNG instances: state and number of draws
    outs,         \* per SimpleRNG instance: its construction and calls, in order
    inst,         \* Simulation instances constructed from the same arguments
    pc,           \* run_benchmark: the statement to run next
    num_frames,   \* run_benchmark: its argument
    warm,         \* run_benchmark: warm-up iterations completed
    frame,        \* run_benchmark: measured iterations completed
    clock,        \* what time.time_ns() returns
    t0,           \* run_benchmark locals
    t1,
    t2,
    total_time_sim,
    total_time_bench,
    detections,   \* run_benchmark: the Detection list built last
    tracker,      \* the external tracker: update() calls and detections received
    spent         \* time that passed inside each step of the measured frames

simVars == <<width, height, rectangles, rng, args, steps, prev, prev2, hit, prevHit, boxes, ids, lastOp>>

rngVars == <<gens, outs>>
pairVars == <<inst>>
benchVars == <<pc, num_frames, warm, frame, clock, t0, t1, t2, total_time_sim, total_time_bench,
               detections, tracker, spent>>
vars == <<simVars, rngVars, pairVars, benchVars>>

None == "None"
NoResult == <<>>

(***************************************************************************)
(* Bounds of the model.                                                    *)
(***************************************************************************)
MaxSteps == 10
MaxRects == 2
SeedSpan == 3
SmallWidth == 100
SmallHeight == 90
TinyWidth == 60
TinyHeight == 50

(***************************************************************************)
(* Constants of the program.                                               *)
(***************************************************************************)
LcgA == 1664525
LcgC == 1013904223
DriverWidth == 1920
DriverHeight == 1080
DriverSeed == 42

Limb == 2^16
FracLo == 2^17

Seeds == {DriverSeed} \cup (-SeedSpan .. SeedSpan)
Arenas == {<<DriverWidth, DriverHeight>>, <<SmallWidth, SmallHeight>>, <<TinyWidth, TinyHeight>>}

(***************************************************************************)
(* Float arithmetic on <<m, l>>.                                           *)
(***************************************************************************)
FNorm(m, l) == <<m + (l \div FracLo), l % FracLo>>
FInt(k) == <<k * Limb, 0>>
FAdd(a, b) == FNorm(a[1] + b[1], a[2] + b[2])
FNeg(a) == FNorm(-a[1], -a[2])
FSub(a, b) == FAdd(a, FNeg(b))
FLess(a, b) == a[1] < b[1] \/ (a[1] = b[1] /\ a[2] < b[2])
FLeq(a, b) == ~FLess(b, a)
FMul(a, k) == FNorm(a[1] * k, a[2] * k)
FHalf(a) == <<a[1] \div 2, (a[2] + (a[1] % 2) * FracLo) \div 2>>
FZero == FInt(0)

(***************************************************************************)
(* SimpleRNG.                                                              *)
(***************************************************************************)
NoRng == [state |-> <<0, 0>>, draws |-> -1]

\* a generator kept at module level: seeded by its first user, shared by the next
SimpleRNG_init_shared(seed) ==
    IF rng = NoRng THEN [state |-> <<(seed \div Limb) % Limb, seed % Limb>>, draws |-> 0] ELSE rng

SimpleRNG_init(seed) == [state |-> <<(seed \div Limb) % Limb, seed % Limb>>, draws |-> 0]

\* the recurrence taken modulo 2^31
Lcg_Mod31(s) ==
    LET a_hi == LcgA \div Limb
        a_lo == LcgA % Limb
        c_hi == LcgC \div Limb
        c_lo == LcgC % Limb
        p0 == a_lo * s[2] + c_lo
        p1 == a_lo * s[1] + a_hi * s[2] + c_hi + (p0 \div Limb)
    IN <<p1 % (Limb \div 2), p0 % Limb>>

Lcg(s) ==
    LET a_hi == LcgA \div Limb
        a_lo == LcgA % Limb
        c_hi == LcgC \div Limb
        c_lo == LcgC % Limb
        p0 == a_lo * s[2] + c_lo
        p1 == a_lo * s[1] + a_hi * s[2] + c_hi + (p0 \div Limb)
    IN <<p1 % Limb, p0 % Limb>>

SimpleRNG_next(r) == [state |-> Lcg(r.state), draws |-> r.draws + 1]

\* the value next() returns: the new state
NextValue(r) == SimpleRNG_next(r).state

\* the value random() returns: next() / 2^32
ToUnit(n) == <<n[1], 2 * n[2]>>
RandomValue(r) == ToUnit(NextValue(r))

(***************************************************************************)
(* Rectangle and Simulation.__init__.                                      *)
(***************************************************************************)
Rectangle(id, x, y, w, h, vx, vy) ==
    [id |-> id, x |-> x, y |-> y, width |-> w, height |-> h, vx |-> vx, vy |-> vy]

\* the loop of __init__ with the two bounds exchanged
NewRectangle_SwappedBounds(i, r, W, H) ==
    LET r1 == SimpleRNG_next(r)
        r2 == SimpleRNG_next(r1)
        r3 == SimpleRNG_next(r2)
        r4 == SimpleRNG_next(r3)
        r5 == SimpleRNG_next(r4)
        r6 == SimpleRNG_next(r5)
    IN [rect |-> Rectangle(i + 1,
                           FMul(ToUnit(r1.state), H),
                           FMul(ToUnit(r2.state), W),
                           FAdd(FInt(20), FMul(ToUnit(r3.state), 60)),
                           FAdd(FInt(20), FMul(ToUnit(r4.state), 60)),
                           FAdd(FInt(-5), FMul(ToUnit(r5.state), 10)),
                           FAdd(FInt(-5), FMul(ToUnit(r6.state), 10))),
        rng |-> r6]

\* the loop of __init__ drawing the size before the position
NewRectangle_SizeFirst(i, r, W, H) ==
    LET r1 == SimpleRNG_next(r)
        r2 == SimpleRNG_next(r1)
        r3 == SimpleRNG_next(r2)
        r4 == SimpleRNG_next(r3)
        r5 == SimpleRNG_next(r4)
        r6 == SimpleRNG_next(r5)
    IN [rect |-> Rectangle(i + 1,
                           FMul(ToUnit(r3.state), W),
                           FMul(ToUnit(r4.state), H),
                           FAdd(FInt(20), FMul(ToUnit(r1.state), 60)),
                           FAdd(FInt(20), FMul(ToUnit(r2.state), 60)),
                           FAdd(FInt(-5), FMul(ToUnit(r5.state), 10)),
                           FAdd(FInt(-5), FMul(ToUnit(r6.state), 10))),
        rng |-> r6]

\* one iteration of the loop of __init__: six draws, in argument order
NewRectangle(i, r, W, H) ==
    LET r1 == SimpleRNG_next(r)
        r2 == SimpleRNG_next(r1)
        r3 == SimpleRNG_next(r2)
        r4 == SimpleRNG_next(r3)
        r5 == SimpleRNG_next(r4)
        r6 == SimpleRNG_next(r5)
    IN [rect |-> Rectangle(i + 1,
                           FMul(ToUnit(r1.state), W),
                           FMul(ToUnit(r2.state), H),
                           FAdd(FInt(20), FMul(ToUnit(r3.state), 60)),
                           FAdd(FInt(20), FMul(ToUnit(r4.state), 60)),
                           FAdd(FInt(-5), FMul(ToUnit(r5.state), 10)),
                           FAdd(FInt(-5), FMul(ToUnit(r6.state), 10))),
        rng |-> r6]

RECURSIVE InitLoop(_, _, _, _, _, _)
InitLoop(i, n, r, W, H, acc) ==
    IF i >= n THEN [rectangles |-> acc, rng |-> r]
    ELSE LET one == NewRectangle(i, r, W, H)
         IN InitLoop(i + 1, n, one.rng, W, H, Append(acc, one.rect))

Simulation_init(W, H, n, seed) ==
    LET built == InitLoop(0, n, SimpleRNG_init(seed), W, H, <<>>)
    IN [width |-> W, height |-> H, rectangles |-> built.rectangles, rng |-> built.rng]

(***************************************************************************)
(* Simulation.update.                                                      *)
(***************************************************************************)
LeftOf(x, w) == FSub(x, FHalf(w))
RightOf(x, w) == FAdd(x, FHalf(w))

\* update() that turns round at the far wall without clamping
UpdateAxis_NoHighClamp(p, v, extent, bound, low, high) ==
    LET p1 == FAdd(p, v)
        half == FHalf(extent)
    IN IF FLess(FSub(p1, half), FZero)
       THEN [p |-> half, v |-> FNeg(v), hit |-> low]
       ELSE IF FLess(FInt(bound), FAdd(p1, half))
       THEN [p |-> p1, v |-> FNeg(v), hit |-> high]
       ELSE [p |-> p1, v |-> v, hit |-> None]

\* update() with the far-wall test made after, not instead of, the near-wall one
UpdateAxis_TwoIfs(p, v, extent, bound, low, high) ==
    LET p1 == FAdd(p, v)
        half == FHalf(extent)
        near == FLess(FSub(p1, half), FZero)
        p2 == IF near THEN half ELSE p1
        v2 == IF near THEN FNeg(v) ELSE v
    IN IF FLess(FInt(bound), FAdd(p2, half))
       THEN [p |-> FSub(FInt(bound), half), v |-> FNeg(v2), hit |-> high]
       ELSE [p |-> p2, v |-> v2, hit |-> IF near THEN low ELSE None]

\* update() that loses half the speed at a wall
UpdateAxis_Damped(p, v, extent, bound, low, high) ==
    LET p1 == FAdd(p, v)
        half == FHalf(extent)
    IN IF FLess(FSub(p1, half), FZero)
       THEN [p |-> half, v |-> FHalf(FNeg(v)), hit |-> low]
       ELSE IF FLess(FInt(bound), FAdd(p1, half))
       THEN [p |-> FSub(FInt(bound), half), v |-> FHalf(FNeg(v)), hit |-> high]
       ELSE [p |-> p1, v |-> v, hit |-> None]

\* update() that clamps at a wall and keeps the velocity
UpdateAxis_NoNegate(p, v, extent, bound, low, high) ==
    LET p1 == FAdd(p, v)
        half == FHalf(extent)
    IN IF FLess(FSub(p1, half), FZero)
       THEN [p |-> half, v |-> v, hit |-> low]
       ELSE IF FLess(FInt(bound), FAdd(p1, half))
       THEN [p |-> FSub(FInt(bound), half), v |-> v, hit |-> high]
       ELSE [p |-> p1, v |-> v, hit |-> None]

\* the horizontal (or vertical) half of the loop body: position, velocity, extent
\* and bound of one axis; yields the new position and velocity and the correction
UpdateAxis(p, v, extent, bound, low, high) ==
    LET p1 == FAdd(p, v)
        half == FHalf(extent)
    IN IF FLess(FSub(p1, half), FZero)
       THEN [p |-> half, v |-> FNeg(v), hit |-> low]
       ELSE IF FLess(FInt(bound), FAdd(p1, half))
       THEN [p |-> FSub(FInt(bound), half), v |-> FNeg(v), hit |-> high]
       ELSE [p |-> p1, v |-> v, hit |-> None]

UpdateRect(rect, W, H) ==
    LET h == UpdateAxis(rect.x, rect.vx, rect.width, W, "left", "right")
        v == UpdateAxis(rect.y, rect.vy, rect.height, H, "top", "bottom")
    IN [rect |-> [rect EXCEPT !.x = h.p, !.vx = h.v, !.y = v.p, !.vy = v.v],
        hit |-> [h |-> h.hit, v |-> v.hit]]

NoHits(n) == [i \in 1..n |-> [h |-> None, v |-> None]]

SimUpdate ==
    /\ rectangles' = [i \in 1..Len(rectangles) |-> UpdateRect(rectangles[i], width, height).rect]
    /\ hit' = [i \in 1..Len(rectangles) |-> UpdateRect(rectangles[i], width, height).hit]
    /\ prev' = rectangles
    /\ prev2' = prev
    /\ prevHit' = hit
    /\ steps' = steps + 1
    /\ lastOp' = "update"
    /\ UNCHANGED <<width, height, rng, args>>

update ==
    /\ steps < MaxSteps
    /\ SimUpdate
    /\ UNCHANGED <<boxes, ids, rngVars, pairVars, benchVars>>

(***************************************************************************)
(* Simulation.get_bounding_boxes and get_ground_truth_ids.                 *)
(***************************************************************************)
\* get_bounding_boxes() taking the whole extent for the half extent
BoxOf_FullExtent(rect) ==
    <<<<FSub(rect.x, rect.width), FSub(rect.y, rect.height)>>,
      <<FAdd(rect.x, rect.width), FAdd(rect.y, rect.height)>>>>

BoxOf(rect) ==
    LET half_w == FHalf(rect.width)
        half_h == FHalf(rect.height)
        x_min == FSub(rect.x, half_w)
        y_min == FSub(rect.y, half_h)
        x_max == FAdd(rect.x, half_w)
        y_max == FAdd(rect.y, half_h)
    IN <<<<x_min, y_min>>, <<x_max, y_max>>>>

BoundingBoxes(rects) == [i \in 1..Len(rects) |-> BoxOf(rects[i])]

SimBoxes ==
    /\ boxes' = BoundingBoxes(rectangles)
    /\ lastOp' = "get_bounding_boxes"
    /\ UNCHANGED <<width, height, rectangles, rng, args, steps, prev, prev2, hit, prevHit>>

get_bounding_boxes ==
    /\ SimBoxes
    /\ UNCHANGED <<ids, rngVars, pairVars, benchVars>>

GroundTruthIds(rects) == [i \in 1..Len(rects) |-> rects[i].id]

get_ground_truth_ids ==
    /\ ids' = GroundTruthIds(rectangles)
    /\ lastOp' = "get_ground_truth_ids"
    /\ UNCHANGED <<width, height, rectangles, rng, args, steps, prev, prev2, hit, prevHit, boxes>>
    /\ UNCHANGED <<rngVars, pairVars, benchVars>>

(***************************************************************************)
(* A Simulation constructed from any seed, count and bounds, then used.    *)
(***************************************************************************)
Constructed(sim, a) ==
    /\ width = sim.width
    /\ height = sim.height
    /\ rectangles = sim.rectangles
    /\ rng = sim.rng
    /\ args = a
    /\ steps = 0
    /\ prev = sim.rectangles
    /\ prev2 = sim.rectangles
    /\ hit = NoHits(Len(sim.rectangles))
    /\ prevHit = NoHits(Len(sim.rectangles))
    /\ boxes = NoResult
    /\ ids = NoResult
    /\ lastOp = "__init__"

NoRngs == gens = <<>> /\ outs = <<>>
NoPair == inst = <<>>
NoBench ==
    /\ pc = "idle" /\ num_frames = 0 /\ warm = 0 /\ frame = 0 /\ clock = 0
    /\ t0 = 0 /\ t1 = 0 /\ t2 = 0 /\ total_time_sim = 0 /\ total_time_bench = 0
    /\ detections = NoResult /\ tracker = [updates |-> 0, received |-> NoResult]
    /\ spent = [update |-> 0, boxes |-> 0, detect |-> 0, track |-> 0, warmup |-> 0]

Init ==
    /\ \E arena \in Arenas, n \in 1..MaxRects, seed \in Seeds :
        Constructed(Simulation_init(arena[1], arena[2], n, seed),
                    [width |-> arena[1], height |-> arena[2], n |-> n, seed |-> seed])
    /\ NoRngs /\ NoPair /\ NoBench

Next == update \/ get_bounding_boxes \/ get_ground_truth_ids

Spec == Init /\ [][Next]_vars

(***************************************************************************)
(* A Simulation whose rectangles were put in place by hand, as a test of   *)
(* update() and get_bounding_boxes() does.                                 *)
(***************************************************************************)
HandXs == {100, 30}
HandYs == {100, 15}
HandVxs == {-3, 4}
HandVys == {-2, 5}

HandRects(x, y, vx, vy, n) ==
    SubSeq(<<Rectangle(1, FInt(x), FInt(y), FInt(40), FInt(20), FInt(vx), FInt(vy)),
             Rectangle(2, FInt(y), FInt(x), FInt(20), FInt(40), FInt(vy), FInt(vx)),
             Rectangle(3, FInt(x), FInt(x), FInt(30), FInt(30), FInt(vx), FInt(vx))>>, 1, n)

InitRect ==
    /\ \E arena \in Arenas, n \in 1..MaxRects, x \in HandXs, y \in HandYs, vx \in HandVxs, vy \in HandVys :
        LET sim == Simulation_init(arena[1], arena[2], 0, DriverSeed)
        IN Constructed([sim EXCEPT !.rectangles = HandRects(x, y, vx, vy, n)],
                       [width |-> arena[1], height |-> arena[2], n |-> n, seed |-> DriverSeed])
    /\ NoRngs /\ NoPair /\ NoBench

SpecRect == InitRect /\ [][Next]_vars

(***************************************************************************)
(* SimpleRNG instances on their own: next() and random() in any order.     *)
(***************************************************************************)
MaxDraws == 4
RngSeeds == Seeds \cup {2147483647, -2147483647, Limb, -Limb}

Made(seed) == [op |-> "__init__", ret |-> None, state |-> SimpleRNG_init(seed).state]

RngNext(i) ==
    /\ i \in DOMAIN gens
    /\ gens[i].draws < MaxDraws
    /\ gens' = [gens EXCEPT ![i] = SimpleRNG_next(gens[i])]
    /\ outs' = [outs EXCEPT ![i] = Append(@, [op |-> "next", ret |-> NextValue(gens[i]),
                                              state |-> SimpleRNG_next(gens[i]).state])]
    /\ UNCHANGED <<simVars, pairVars, benchVars>>

RngRandom(i) ==
    /\ i \in DOMAIN gens
    /\ gens[i].draws < MaxDraws
    /\ gens' = [gens EXCEPT ![i] = SimpleRNG_next(gens[i])]
    /\ outs' = [outs EXCEPT ![i] = Append(@, [op |-> "random", ret |-> RandomValue(gens[i]),
                                              state |-> SimpleRNG_next(gens[i]).state])]
    /\ UNCHANGED <<simVars, pairVars, benchVars>>

NoSim(a) ==
    /\ width = 0 /\ height = 0 /\ rectangles = <<>> /\ rng = NoRng /\ args = a /\ steps = 0
    /\ prev = <<>> /\ prev2 = <<>> /\ hit = <<>> /\ prevHit = <<>>
    /\ boxes = NoResult /\ ids = NoResult /\ lastOp = None

InitRng ==
    /\ \E seed \in RngSeeds :
        /\ NoSim([seed |-> seed])
        /\ gens = <<SimpleRNG_init(seed)>>
        /\ outs = <<<<Made(seed)>>>>
    /\ NoPair /\ NoBench

NextRng == RngNext(1) \/ RngRandom(1)

SpecRng == InitRng /\ [][NextRng]_vars

(***************************************************************************)
(* Two SimpleRNG instances and two Simulation instances made from the same *)
(* arguments, each used at its own pace.                                   *)
(***************************************************************************)
MaxPairSteps == 3

NotBuilt == [built |-> FALSE, width |-> 0, height |-> 0, rectangles |-> <<>>, steps |-> 0]

Construct(i) ==
    /\ i \in DOMAIN inst
    /\ ~inst[i].built
    /\ LET sim == Simulation_init(args.width, args.height, args.n, args.seed)
       IN /\ inst' = [inst EXCEPT ![i] = [built |-> TRUE, width |-> sim.width, height |-> sim.height,
                                          rectangles |-> sim.rectangles, steps |-> 0]]
          /\ rng' = sim.rng
    /\ UNCHANGED <<width, height, rectangles, args, steps, prev, prev2, hit, prevHit, boxes, ids, lastOp>>
    /\ UNCHANGED <<rngVars, benchVars>>

PairUpdate(i) ==
    /\ i \in DOMAIN inst
    /\ inst[i].built
    /\ inst[i].steps < MaxPairSteps
    /\ inst' = [inst EXCEPT ![i].rectangles =
                    [k \in 1..Len(@) |-> UpdateRect(@[k], inst[i].width, inst[i].height).rect],
                                  ![i].steps = @ + 1]
    /\ UNCHANGED <<simVars, rngVars, benchVars>>

InitPair ==
    /\ \E arena \in Arenas, n \in 1..MaxRects, seed \in Seeds :
        /\ NoSim([width |-> arena[1], height |-> arena[2], n |-> n, seed |-> seed])
        /\ gens = <<SimpleRNG_init(seed), SimpleRNG_init(seed)>>
        /\ outs = <<<<Made(seed)>>, <<Made(seed)>>>>
    /\ inst = <<NotBuilt, NotBuilt>>
    /\ NoBench

NextPair ==
    \/ \E i \in 1..2 : Construct(i)
    \/ \E i \in 1..2 : PairUpdate(i)
    \/ \E i \in 1..2 : RngNext(i)

SpecPair == InitPair /\ [][NextPair]_vars

(***************************************************************************)
(* run_benchmark.  Each call takes some time; time.time_ns() reads the     *)
(* clock.  The tracker is the external library: the model counts its       *)
(* update() calls and keeps the detections it was given last.              *)
(***************************************************************************)
MaxFrames == 2
MaxDur == 1
MaxWarmTime == 2
Warmup == 10

Durations == 0..MaxDur
\* the warm-up as a whole takes at most MaxWarmTime
WarmDurations == {d \in Durations : spent.warmup + d <= MaxWarmTime}

Detections(bs) == [i \in 1..Len(bs) |-> [points |-> bs[i]]]
TrackerUpdate(tr, dets) == [updates |-> tr.updates + 1, received |-> dets]

\* total_time_bench += (t2 - t1), with the three clock readings of the frame
BenchInterval_WholeFrame(a0, a1, a2) == a2 - a0

SimInterval(a0, a1, a2) == a1 - a0
BenchInterval(a0, a1, a2) == a2 - a1

Passes(d, step) ==
    /\ clock' = clock + d
    /\ spent' = [spent EXCEPT ![step] = @ + d]

BenchFrame == <<num_frames, warm, frame, t0, t1, t2, total_time_sim, total_time_bench>>

WarmUpdate ==
    /\ pc = "warm_update"
    /\ SimUpdate
    /\ \E d \in WarmDurations : Passes(d, "warmup")
    /\ pc' = "warm_boxes"
    /\ UNCHANGED <<boxes, ids, rngVars, pairVars, BenchFrame, detections, tracker>>

WarmBoxes ==
    /\ pc = "warm_boxes"
    /\ SimBoxes
    /\ \E d \in WarmDurations : Passes(d, "warmup")
    /\ pc' = "warm_detect"
    /\ UNCHANGED <<ids, rngVars, pairVars, BenchFrame, detections, tracker>>

WarmDetect ==
    /\ pc = "warm_detect"
    /\ detections' = Detections(boxes)
    /\ \E d \in WarmDurations : Passes(d, "warmup")
    /\ pc' = "warm_track"
    /\ UNCHANGED <<simVars, rngVars, pairVars, BenchFrame, tracker>>

WarmTrack ==
    /\ pc = "warm_track"
    /\ tracker' = TrackerUpdate(tracker, detections)
    /\ \E d \in WarmDurations : Passes(d, "warmup")
    /\ warm' = warm + 1
    /\ pc' = IF warm + 1 < Warmup THEN "warm_update" ELSE "reset"
    /\ UNCHANGED <<simVars, rngVars, pairVars, detections>>
    /\ UNCHANGED <<num_frames, frame, t0, t1, t2, total_time_sim, total_time_bench>>

ResetTotals ==
    /\ pc = "reset"
    /\ total_time_sim' = 0
    /\ total_time_bench' = 0
    /\ pc' = IF frame < num_frames THEN "t0" ELSE "report"
    /\ UNCHANGED <<simVars, rngVars, pairVars, num_frames, warm, frame, clock, t0, t1, t2,
                   detections, tracker, spent>>

ReadT0 ==
    /\ pc = "t0"
    /\ t0' = clock
    /\ pc' = "update"
    /\ UNCHANGED <<simVars, rngVars, pairVars, num_frames, warm, frame, clock, t1, t2,
                   total_time_sim, total_time_bench, detections, tracker, spent>>

FrameUpdate ==
    /\ pc = "update"
    /\ SimUpdate
    /\ \E d \in Durations : Passes(d, "update")
    /\ pc' = "boxes"
    /\ UNCHANGED <<boxes, ids, rngVars, pairVars, BenchFrame, detections, tracker>>

FrameBoxes ==
    /\ pc = "boxes"
    /\ SimBoxes
    /\ \E d \in Durations : Passes(d, "boxes")
    /\ pc' = "t1"
    /\ UNCHANGED <<ids, rngVars, pairVars, BenchFrame, detections, tracker>>

ReadT1 ==
    /\ pc = "t1"
    /\ t1' = clock
    /\ pc' = "detect"
    /\ UNCHANGED <<simVars, rngVars, pairVars, num_frames, warm, frame, clock, t0, t2,
                   total_time_sim, total_time_bench, detections, tracker, spent>>

FrameDetect ==
    /\ pc = "detect"
    /\ detections' = Detections(boxes)
    /\ \E d \in Durations : Passes(d, "detect")
    /\ pc' = "track"
    /\ UNCHANGED <<simVars, rngVars, pairVars, BenchFrame, tracker>>

FrameTrack ==
    /\ pc = "track"
    /\ tracker' = TrackerUpdate(tracker, detections)
    /\ \E d \in Durations : Passes(d, "track")
    /\ pc' = "t2"
    /\ UNCHANGED <<simVars, rngVars, pairVars, BenchFrame, detections>>

Accumulate ==
    /\ pc = "t2"
    /\ t2' = clock
    /\ total_time_sim' = total_time_sim + SimInterval(t0, t1, clock)
    /\ total_time_bench' = total_time_bench + BenchInterval(t0, t1, clock)
    /\ frame' = frame + 1
    /\ pc' = IF frame + 1 < num_frames THEN "t0" ELSE "report"
    /\ UNCHANGED <<simVars, rngVars, pairVars, num_frames, warm, clock, t0, t1,
                   detections, tracker, spent>>

\* fps and avg_time_ms divide by total_time_bench and num_frames
Report ==
    /\ pc = "report"
    /\ pc' = IF total_time_bench = 0 \/ num_frames = 0 THEN "ZeroDivisionError" ELSE "done"
    /\ UNCHANGED <<simVars, rngVars, pairVars, BenchFrame, clock, detections, tracker, spent>>

InitBench ==
    /\ \E n \in 1..MaxRects :
        Constructed(Simulation_init(DriverWidth, DriverHeight, n, DriverSeed),
                    [width |-> DriverWidth, height |-> DriverHeight, n |-> n, seed |-> DriverSeed])
    /\ NoRngs /\ NoPair
    /\ num_frames \in 1..MaxFrames
    /\ pc = "warm_update" /\ warm = 0 /\ frame = 0 /\ clock = 0
    /\ t0 = 0 /\ t1 = 0 /\ t2 = 0 /\ total_time_sim = 0 /\ total_time_bench = 0
    /\ detections = NoResult /\ tracker = [updates |-> 0, received |-> NoResult]
    /\ spent = [update |-> 0, boxes |-> 0, detect |-> 0, track |-> 0, warmup |-> 0]

NextBench ==
    \/ WarmUpdate \/ WarmBoxes \/ WarmDetect \/ WarmTrack \/ ResetTotals
    \/ ReadT0 \/ FrameUpdate \/ FrameBoxes \/ ReadT1 \/ FrameDetect \/ FrameTrack
    \/ Accumulate \/ Report

SpecBench == InitBench /\ [][NextBench]_vars

(***************************************************************************)
(* Properties of the Simulation.                                           *)
(***************************************************************************)
Rects == 1..Len(rectangles)

InBounds(rect, W, H) ==
    /\ FLeq(FZero, FSub(rect.x, FHalf(rect.width)))
    /\ FLeq(FAdd(rect.x, FHalf(rect.width)), FInt(W))
    /\ FLeq(FZero, FSub(rect.y, FHalf(rect.height)))
    /\ FLeq(FAdd(rect.y, FHalf(rect.height)), FInt(H))

\* the bounds exceed the rectangle's size
Fits(rect, W, H) == FLess(rect.width, FInt(W)) /\ FLess(rect.height, FInt(H))

AllFit == \A i \in Rects : Fits(rectangles[i], width, height)

\* C1: when the bounds exceed every rectangle's size, after every update() call
\* each rectangle lies within [0, width] x [0, height] with its half-extents.
C1_InBoundsAfterUpdate ==
    (steps >= 1 /\ AllFit) => \A i \in Rects : InBounds(rectangles[i], width, height)

\* an update() that corrected a rectangle at a wall, in the driver's arena or another
C1_Witness ==
    /\ steps >= 2
    /\ AllFit
    /\ \E i \in Rects : hit[i].h = "right" \/ hit[i].v = "bottom"
    /\ \E i \in Rects : ~InBounds(prev[i], width, height) \/ ~InBounds(prev2[i], width, height)

Reflected(p0, v0, extent, bound, p, v) ==
    LET moved == FAdd(p0, v0)
    IN IF FLess(FSub(moved, FHalf(extent)), FZero)
       THEN FSub(p, FHalf(extent)) = FZero /\ v = FNeg(v0)
       ELSE IF FLess(FInt(bound), FAdd(moved, FHalf(extent)))
       THEN FAdd(p, FHalf(extent)) = FInt(bound) /\ v = FNeg(v0)
       ELSE p = moved /\ v = v0

\* C3: per rectangle and axis, update() moves by the velocity, then puts an edge
\* that crossed a wall exactly on that wall and negates the velocity (left/top
\* wall first, else right/bottom wall), else leaves the velocity alone.
C3_Reflection ==
    steps >= 1 =>
        \A i \in Rects :
            /\ Reflected(prev[i].x, prev[i].vx, prev[i].width, width,
                         rectangles[i].x, rectangles[i].vx)
            /\ Reflected(prev[i].y, prev[i].vy, prev[i].height, height,
                         rectangles[i].y, rectangles[i].vy)

\* a rectangle at the left wall moving left was put back on the wall, turned round
C3_Witness ==
    /\ steps >= 2
    /\ \E i \in Rects :
        /\ FSub(prev[i].x, FHalf(prev[i].width)) = FZero
        /\ FLess(prev[i].vx, FZero)
        /\ FSub(rectangles[i].x, FHalf(rectangles[i].width)) = FZero
        /\ rectangles[i].vx = FNeg(prev[i].vx)
        /\ hit[i].h = "left"

RECURSIVE NthState(_, _)
NthState(s, k) == IF k = 0 THEN s ELSE Lcg(NthState(s, k - 1))

\* the k-th random() of SimpleRNG(seed)
Draw(seed, k) == ToUnit(NthState(SimpleRNG_init(seed).state, k))

\* C6: __init__ with count n takes 6n draws of one SimpleRNG(seed): rectangle i
\* gets draws 6(i-1)+1 .. 6(i-1)+6 as x, y, width, height, vx, vy.
C6_DrawOrder ==
    /\ Len(rectangles) = args.n
    /\ rng.draws = 6 * args.n
    /\ rng.state = NthState(SimpleRNG_init(args.seed).state, 6 * args.n)
    /\ \A i \in Rects :
        LET r == rectangles[i]
            first == 6 * (i - 1)
        IN /\ r.id = i
           /\ r.width = FAdd(FInt(20), FMul(Draw(args.seed, first + 3), 60))
           /\ r.height = FAdd(FInt(20), FMul(Draw(args.seed, first + 4), 60))
           /\ steps = 0 =>
                /\ r.x = FMul(Draw(args.seed, first + 1), args.width)
                /\ r.y = FMul(Draw(args.seed, first + 2), args.height)
                /\ r.vx = FAdd(FInt(-5), FMul(Draw(args.seed, first + 5), 10))
                /\ r.vy = FAdd(FInt(-5), FMul(Draw(args.seed, first + 6), 10))

\* a fresh Simulation of two rectangles or more, from the driver's seed
C6_Witness ==
    /\ steps = 0
    /\ args.seed = DriverSeed
    /\ Len(rectangles) >= 2
    /\ rng.draws >= 12

\* a wall crossing on one axis, as update() detects it from the values before it
Crossing(p0, v0, extent, bound) ==
    \/ FLess(FSub(FAdd(p0, v0), FHalf(extent)), FZero)
    \/ FLess(FInt(bound), FAdd(FAdd(p0, v0), FHalf(extent)))

C7_Step ==
    /\ width' = width
    /\ height' = height
    /\ Len(rectangles') = Len(rectangles)
    /\ \A i \in Rects :
        LET a == rectangles[i]
            b == rectangles'[i]
        IN /\ b.id = a.id /\ b.width = a.width /\ b.height = a.height
           /\ \/ b.vx = a.vx
              \/ b.vx = FNeg(a.vx) /\ lastOp' = "update" /\ Crossing(a.x, a.vx, a.width, width)
           /\ \/ b.vy = a.vy
              \/ b.vy = FNeg(a.vy) /\ lastOp' = "update" /\ Crossing(a.y, a.vy, a.height, height)
    /\ lastOp' = "get_ground_truth_ids" => ids' = [i \in 1..args.n |-> i]

\* C7: no call changes the number or order of the rectangles, an id, a width, a
\* height or the bounds; a velocity component changes only by negation, in an
\* update() that detects a wall crossing on its axis; get_ground_truth_ids()
\* returns 1..count in creation order.
C7_Frame == [][C7_Step]_vars

\* ids were read after an update() that turned a rectangle round
C7_Witness ==
    /\ lastOp = "get_ground_truth_ids"
    /\ Len(ids) >= 2
    /\ steps >= 2
    /\ \E i \in Rects : rectangles[i].vx = FNeg(prev[i].vx) /\ rectangles[i].vx # prev[i].vx

SameWall(a, b) == a # None /\ a = b

\* C10: a rectangle smaller than the bounds that is inside them before an update()
\* (as it is before every update() but the first) leaves a wall correction with its
\* velocity pointing away from that wall, and is not corrected against the same
\* wall by the next update().
C10_AwayFromWall ==
    \A i \in Rects :
        Fits(rectangles[i], width, height) =>
            /\ (steps >= 1 /\ InBounds(prev[i], width, height)) =>
                /\ hit[i].h = "left" => FLess(FZero, rectangles[i].vx)
                /\ hit[i].h = "right" => FLess(rectangles[i].vx, FZero)
                /\ hit[i].v = "top" => FLess(FZero, rectangles[i].vy)
                /\ hit[i].v = "bottom" => FLess(rectangles[i].vy, FZero)
            /\ (steps >= 2 /\ InBounds(prev2[i], width, height)) =>
                /\ ~SameWall(prevHit[i].h, hit[i].h)
                /\ ~SameWall(prevHit[i].v, hit[i].v)
            /\ steps >= 2 => InBounds(prev[i], width, height)

\* a rectangle that was inside the bounds ran into a wall, and update() ran again
C10_Witness ==
    /\ steps >= 3
    /\ \E i \in Rects :
        /\ Fits(rectangles[i], width, height)
        /\ InBounds(prev2[i], width, height)
        /\ prevHit[i].h # None \/ prevHit[i].v # None

\* the corners of a rectangle: centre minus and plus half the size
Corners(rect) ==
    <<<<FSub(rect.x, FHalf(rect.width)), FSub(rect.y, FHalf(rect.height))>>,
      <<FAdd(rect.x, FHalf(rect.width)), FAdd(rect.y, FHalf(rect.height))>>>>

IsExample(rect) ==
    rect.x = FInt(100) /\ rect.y = FInt(100) /\ rect.width = FInt(40) /\ rect.height = FInt(20)

C8_Step ==
    lastOp' = "get_bounding_boxes" =>
        /\ rectangles' = rectangles
        /\ Len(boxes') = Len(rectangles)
        /\ \A i \in Rects :
            /\ boxes'[i] = Corners(rectangles[i])
            /\ IsExample(rectangles[i]) =>
                boxes'[i] = <<<<FInt(80), FInt(90)>>, <<FInt(120), FInt(110)>>>>

\* C8: get_bounding_boxes() returns, in creation order, one box per rectangle with
\* corners (x - width/2, y - height/2) and (x + width/2, y + height/2), and changes
\* no rectangle; centre (100,100), width 40, height 20 gives (80,90) and (120,110).
C8_Boxes == [][C8_Step]_vars

\* the boxes of two rectangles, the first one the example, were just returned
C8_Witness ==
    /\ lastOp = "get_bounding_boxes"
    /\ Len(rectangles) >= 2
    /\ IsExample(rectangles[1])
    /\ boxes[1] = <<<<FInt(80), FInt(90)>>, <<FInt(120), FInt(110)>>>>
    /\ boxes[2] = <<<<FInt(90), FInt(80)>>, <<FInt(110), FInt(120)>>>>

\* (1664525 * s + 1013904223) mod 2^32, digit by digit in base 256
LcgByBytes(s) ==
    LET B == 256
        d0 == s[2] % B
        d1 == s[2] \div B
        d2 == s[1] % B
        d3 == s[1] \div B
        a0 == 1664525 % B
        a1 == (1664525 \div B) % B
        a2 == 1664525 \div (B * B)
        c0 == 1013904223 % B
        c1 == (1013904223 \div B) % B
        c2 == (1013904223 \div (B * B)) % B
        c3 == 1013904223 \div (B * B * B)
        u0 == a0 * d0 + c0
        u1 == a0 * d1 + a1 * d0 + c1 + (u0 \div B)
        u2 == a0 * d2 + a1 * d1 + a2 * d0 + c2 + (u1 \div B)
        u3 == a0 * d3 + a1 * d2 + a2 * d1 + c3 + (u2 \div B)
    IN <<(u3 % B) * B + (u2 % B), (u1 % B) * B + (u0 % B)>>

InRange32(s) == s[1] \in 0..(Limb - 1) /\ s[2] \in 0..(Limb - 1)

\* s is seed mod 2^32, for a seed of magnitude below 2^31
IsMasked(seed, s) ==
    /\ InRange32(s)
    /\ (s[1] - (IF seed < 0 THEN Limb ELSE 0)) * Limb + s[2] = seed

\* C4: the constructor masks the seed to 32 bits; next() sets the state to
\* (1664525 * state + 1013904223) mod 2^32 and returns it, so state and values stay
\* in 0..2^32-1; random() is that value over 2^32, in [0,1); the first value for
\* seed 42 is 1083814273.
C4_Recurrence ==
    \A i \in DOMAIN gens :
        /\ IsMasked(args.seed, outs[i][1].state)
        /\ gens[i].state = outs[i][Len(outs[i])].state
        /\ gens[i].draws = Len(outs[i]) - 1
        /\ \A k \in 2..Len(outs[i]) :
            LET e == outs[i][k]
            IN /\ e.state = LcgByBytes(outs[i][k - 1].state)
               /\ InRange32(e.state)
               /\ e.op = "next" => e.ret = e.state
               /\ e.op = "random" =>
                    /\ e.ret = <<e.state[1], 2 * e.state[2]>>
                    /\ FLeq(FZero, e.ret) /\ FLess(e.ret, FInt(1))
               /\ (k = 2 /\ args.seed = DriverSeed) => e.state[1] * Limb + e.state[2] = 1083814273

\* from a negative seed: a next() of value 2^31 or more, then a random()
C4_Witness ==
    /\ args.seed < 0
    /\ Len(outs[1]) >= 4
    /\ \E k \in 2..Len(outs[1]) : outs[1][k].op = "next" /\ outs[1][k].ret[1] >= Limb \div 2
    /\ outs[1][Len(outs[1])].op = "random"

Min(a, b) == IF a <= b THEN a ELSE b

\* C5: two Simulations built from the same (width, height, count, seed) have the
\* same rectangles, field for field, after construction and after the same number
\* of update() calls (hence the same bounding boxes); two SimpleRNGs with the same
\* seed return the same next() values.  Nothing outside the instance matters.
C5_Determinism ==
    /\ \A i, j \in DOMAIN inst :
        (inst[i].built /\ inst[j].built /\ inst[i].steps = inst[j].steps) =>
            inst[i] = inst[j]
    /\ \A i, j \in DOMAIN outs :
        \A k \in 1..Min(Len(outs[i]), Len(outs[j])) : outs[i][k].ret = outs[j][k].ret

\* both Simulations were updated twice, a rectangle of the first having turned
\* round at a wall, and both generators were drawn from
C5_Witness ==
    /\ inst[1].built /\ inst[2].built
    /\ inst[1].steps = 2 /\ inst[2].steps = 2
    /\ Len(outs[1]) >= 3 /\ Len(outs[2]) >= 3
    /\ \E k \in 1..Len(inst[1].rectangles) :
        inst[1].rectangles[k].vx #
            Simulation_init(args.width, args.height, args.n, args.seed).rectangles[k].vx

Finished == pc \in {"done", "ZeroDivisionError"}
WarmingUp == pc \in {"warm_update", "warm_boxes", "warm_detect", "warm_track"}

C9_Frames ==
    /\ WarmingUp => frame = 0 /\ total_time_bench = 0 /\ tracker.updates = warm /\ warm < Warmup
    /\ ~WarmingUp => warm = Warmup /\ tracker.updates = Warmup + frame + (IF pc = "t2" THEN 1 ELSE 0)
    /\ Finished => frame = num_frames /\ steps = Warmup + num_frames

\* C9 as stated: 10 warm-up frames that add nothing to the benchmark time, then
\* num_frames measured frames whose timed interval holds tracker.update() alone.
C9_TrackerOnly ==
    /\ C9_Frames
    /\ Finished => total_time_bench = spent.track

\* C9 as amended: 10 warm-up frames that add nothing to the benchmark time, then
\* num_frames measured frames; the benchmark time of a measured frame is the time
\* of building the detection objects and of tracker.update(), and the time of
\* sim.update() and get_bounding_boxes() goes to the simulation time.
C9_DetectAndTrack ==
    /\ C9_Frames
    /\ pc \in {"t0", "report", "done", "ZeroDivisionError"} =>
        /\ total_time_bench = spent.detect + spent.track
        /\ total_time_sim = spent.update + spent.boxes

\* a finished run in which every kind of step took time
C9_Witness ==
    /\ pc = "done"
    /\ frame = MaxFrames
    /\ spent.warmup > 0 /\ spent.update > 0 /\ spent.boxes > 0
    /\ spent.detect > 0 /\ spent.track > 0

====
